---- MODULE Spec2Model ----
(***************************************************************************)
(* Wire logging of FUSE operations: a record is created when a request is  *)
(* read (NewWireLogRecord), the file system callback runs and may add to   *)
(* the record's Extra map, and when the operation completes the record is  *)
(* finalised and serialised by formatWireLogEntry and appended to the      *)
(* trace stream.  The mounted server is the sample testFS or some other    *)
(* fuse.Server whose callbacks complete with an arbitrary error.           *)
(***************************************************************************)
EXTENDS Integers, Sequences, FiniteSets, TLC

\* ---------------------------------------------------------------- bounds
MaxOps == 3        \* requests read from the kernel, the handshake included
MaxClock == 2      \* readings of the clock
MaxData == 2       \* longest write payload
MaxReadSize == 4   \* largest read buffer; larger than the file

VARIABLES
  server,     \* which fuse.Server is mounted: "testFS" or "other"
  ops,        \* the operations read so far, by request number: phase, op, err,
              \* wlog, ferr (formatting failed), readAt (clock reading at receipt)
  stream,     \* the trace stream: the serialised records, in order of appending
  clock,      \* the clock time.Now() reads
  completed   \* history: [id, at] of each reply sent, in order: the request number
              \* and the clock reading when its record was formatted

vars == <<server, ops, stream, clock, completed>>

\* ------------------------------------------------------- testFS constants
rootInode == 1
fileInode == 2
fileName == <<102, 111, 111>>          \* "foo"
fileContents == <<98, 97, 114>>        \* "bar"
\* An os.FileMode: the permission bits and the os.ModeDir bit.
FileMode(perm, dir) == [perm |-> perm, dir |-> dir]
fileMode == FileMode(292, FALSE)       \* 0444
dirMode == FileMode(365, TRUE)         \* 0555 | os.ModeDir
fileHandle == 10
ENOENT == 2
ENOSYS == 38

\* ------------------------------------------------------------ Go values
\* reflect.Kind of a value of the given Go type.
Kind(type) ==
  CASE type \in {"*uint64", "*os.FileMode"} -> "Ptr"
    [] type = "func()" -> "Func"
    [] type \in {"[]byte", "[][]byte"} -> "Slice"
    [] type = "string" -> "String"
    [] type = "bool" -> "Bool"
    [] type \in {"OpContext", "ChildInodeEntry", "InodeAttributes", "Protocol"} -> "Struct"
    [] OTHER -> "Int"

\* A value with its dynamic type, as reflect.Value and interface values carry it.
Val(type, v) == [type |-> type, isNil |-> FALSE, v |-> v]
NilVal(type) == [type |-> type, isNil |-> TRUE, v |-> IF Kind(type) = "Ptr" THEN 0 ELSE <<>>]
Field(name, val) == [name |-> name, val |-> val]

EmptyMap == <<>>
Put(m, k, v) == (k :> v) @@ m

Nil == <<>>
Ptr(x) == <<x>>

Min(a, b) == IF a < b THEN a ELSE b

\* ---------------------------------------------------------------- errors
\* An error is its Unwrap chain, outermost first; the nil error is the empty chain.
NoError == <<>>
Errno(n) == <<[isErrno |-> TRUE, code |-> n, msg |-> "errno"]>>
ErrorString(msg) == <<[isErrno |-> FALSE, code |-> 0, msg |-> msg]>>
Wrap(msg, err) == ErrorString(msg) \o err

EOF == ErrorString("EOF")
errNegativeOffset == ErrorString("strings.Reader.ReadAt: negative offset")

\* errors.As(err, &errno): the first syscall.Errno of the chain.
RECURSIVE ErrorsAs(_)
ErrorsAs(err) ==
  IF err = <<>> THEN [ok |-> FALSE, errno |-> 0]
  ELSE IF Head(err).isErrno THEN [ok |-> TRUE, errno |-> Head(err).code]
  ELSE ErrorsAs(Tail(err))

\* ------------------------------------------------------ operation values
\* An operation value: its type name and its fields in declaration order.
OpTypes ==
  {"initOp", "LookUpInodeOp", "GetInodeAttributesOp", "SetInodeAttributesOp",
   "OpenDirOp", "OpenFileOp", "FlushFileOp", "ReadFileOp", "WriteFileOp",
   "ReleaseFileHandleOp"}

InodeAttributes(nlink, mode, size) == [Nlink |-> nlink, Mode |-> mode, Size |-> size]
ZeroAttributes == InodeAttributes(0, FileMode(0, FALSE), 0)
ChildInodeEntry(child, attrs) == [Child |-> child, Attributes |-> attrs]
OpContext(fuseID) == Val("OpContext", [FuseID |-> fuseID, Pid |-> 100 + fuseID])

Names == <<fileName, <<120>>>>         \* "foo", "x"
Bytes(n) == [i \in 1..n |-> 64 + i]
Zeros(n) == [i \in 1..n |-> 0]

\* The requests the kernel may send, as [type, a, b, c]: a is the inode (the
\* parent for a lookup); b the name's index in Names, whether Size is set, the
\* offset or the payload's length; c whether Mode is set, the size of the read
\* or whether the payload is nil.  Directory reads are left out.
Req(type, a, b, c) == [type |-> type, a |-> a, b |-> b, c |-> c]
Requests ==
  {Req("LookUpInodeOp", p, n, 0) : p \in {rootInode, fileInode}, n \in 1..2}
  \cup {Req("GetInodeAttributesOp", i, 0, 0) : i \in {rootInode, fileInode, 3}}
  \cup {Req("SetInodeAttributesOp", fileInode, s, m) : s \in 0..1, m \in 0..1}
  \cup {Req("OpenDirOp", i, 0, 0) : i \in {rootInode, fileInode}}
  \cup {Req("OpenFileOp", i, 0, 0) : i \in {rootInode, fileInode}}
  \cup {Req("FlushFileOp", fileInode, 0, 0)}
  \cup {Req("ReadFileOp", fileInode, off, sz) : off \in {-1, 0, 1, 3}, sz \in {0, 2, MaxReadSize}}
  \cup {Req("ReadFileOp", rootInode, 0, MaxReadSize)}
  \cup {Req("WriteFileOp", fileInode, k, 0) : k \in 0..MaxData}
  \cup {Req("WriteFileOp", fileInode, 0, 1)}
  \cup {Req("ReleaseFileHandleOp", 0, 0, 0)}

InitRequest == Req("initOp", 0, 0, 0)

\* The operation value the dispatcher builds from a request; fuseID is the
\* kernel's request number.
NewOp(req, fuseID) ==
  [type |-> req.type,
   fields |->
     CASE req.type = "initOp" ->
            <<Field("Kernel", Val("Protocol", [Major |-> 7, Minor |-> 31])),
              Field("MaxReadahead", Val("uint32", 131072)),
              Field("Flags", Val("InitFlags", 0))>>
       [] req.type = "LookUpInodeOp" ->
            <<Field("Parent", Val("InodeID", req.a)),
              Field("Name", Val("string", Names[req.b])),
              Field("Entry", Val("ChildInodeEntry", ChildInodeEntry(0, ZeroAttributes))),
              Field("OpContext", OpContext(fuseID))>>
       [] req.type = "GetInodeAttributesOp" ->
            <<Field("Inode", Val("InodeID", req.a)),
              Field("Attributes", Val("InodeAttributes", ZeroAttributes)),
              Field("OpContext", OpContext(fuseID))>>
       [] req.type = "SetInodeAttributesOp" ->
            <<Field("Inode", Val("InodeID", req.a)),
              Field("Size", IF req.b = 1 THEN Val("*uint64", 0) ELSE NilVal("*uint64")),
              Field("Mode", IF req.c = 1 THEN Val("*os.FileMode", fileMode)
                                        ELSE NilVal("*os.FileMode")),
              Field("Attributes", Val("InodeAttributes", ZeroAttributes)),
              Field("OpContext", OpContext(fuseID))>>
       [] req.type = "OpenDirOp" ->
            <<Field("Inode", Val("InodeID", req.a)),
              Field("Handle", Val("HandleID", 0)),
              Field("OpContext", OpContext(fuseID))>>
       [] req.type = "OpenFileOp" ->
            <<Field("Inode", Val("InodeID", req.a)),
              Field("Handle", Val("HandleID", 0)),
              Field("KeepPageCache", Val("bool", 0)),
              Field("OpContext", OpContext(fuseID))>>
       [] req.type = "FlushFileOp" ->
            <<Field("Inode", Val("InodeID", req.a)),
              Field("Handle", Val("HandleID", fileHandle)),
              Field("OpContext", OpContext(fuseID))>>
       [] req.type = "ReadFileOp" ->
            <<Field("Inode", Val("InodeID", req.a)),
              Field("Handle", Val("HandleID", fileHandle)),
              Field("Offset", Val("int64", req.b)),
              Field("Size", Val("int64", req.c)),
              Field("Dst", Val("[]byte", Zeros(req.c))),
              Field("Data", NilVal("[][]byte")),
              Field("BytesRead", Val("int", 0)),
              Field("OpContext", OpContext(fuseID)),
              Field("Callback", NilVal("func()"))>>
       [] req.type = "WriteFileOp" ->
            <<Field("Inode", Val("InodeID", req.a)),
              Field("Handle", Val("HandleID", fileHandle)),
              Field("Offset", Val("int64", 0)),
              Field("Data", IF req.c = 1 THEN NilVal("[]byte")
                                        ELSE Val("[]byte", Bytes(req.b))),
              Field("OpContext", OpContext(fuseID)),
              Field("Callback", NilVal("func()"))>>
       [] OTHER ->   \* ReleaseFileHandleOp
            <<Field("Handle", Val("HandleID", fileHandle)),
              Field("OpContext", OpContext(fuseID))>>]

NumField(op) == Len(op.fields)
FieldNames(op) == {op.fields[i].name : i \in 1..NumField(op)}
\* v.FieldByName(name): the index of the field, 0 when there is none.
FieldIndex(op, name) ==
  IF name \in FieldNames(op)
    THEN CHOOSE i \in 1..NumField(op) : op.fields[i].name = name
    ELSE 0
Get(op, name) == op.fields[FieldIndex(op, name)].val.v
Set(op, name, v) ==
  [op EXCEPT !.fields[FieldIndex(op, name)].val.v = v]
\* len of a slice value; a nil slice has length 0.
LenOf(val) == IF val.isNil THEN 0 ELSE Len(val.v)

\* --------------------------------------------------------------- records
NewWireLogRecord(now) ==
  [Operation |-> "", StartTime |-> now, Duration |-> 0, Status |-> 0,
   Context |-> Nil, Args |-> EmptyMap, Extra |-> EmptyMap]

\* ----------------------------------------------------------------- testFS
\* A callback's outcome: the operation with its result fields, the error, the record.
Outcome(op, err, wlog) == [op |-> op, err |-> err, wlog |-> wlog]

LookUpInode(op, wlog) ==
  LET w == [wlog EXCEPT !.Extra = Put(@, "lookup", Val("string", <<121, 101, 115>>))]
  IN IF Get(op, "Parent") = rootInode /\ Get(op, "Name") = fileName
       THEN Outcome(Set(op, "Entry",
                        ChildInodeEntry(fileInode,
                                        InodeAttributes(1, fileMode, Len(fileContents)))),
                    NoError, w)
       ELSE Outcome(op, Errno(ENOENT), w)

GetInodeAttributes(op, wlog) ==
  CASE Get(op, "Inode") = rootInode ->
         Outcome(Set(op, "Attributes", InodeAttributes(1, dirMode, 0)), NoError, wlog)
    [] Get(op, "Inode") = fileInode ->
         Outcome(Set(op, "Attributes", InodeAttributes(1, fileMode, Len(fileContents))),
                 NoError, wlog)
    [] OTHER -> Outcome(op, Errno(ENOENT), wlog)

OpenDir(op, wlog) ==
  IF Get(op, "Inode") = rootInode
    THEN Outcome(op, NoError, wlog)
    ELSE Outcome(op, Errno(ENOENT), wlog)

OpenFile(op, wlog) ==
  IF Get(op, "Inode") = fileInode
    THEN Outcome(Set(op, "Handle", fileHandle), NoError, wlog)
    ELSE Outcome(op, Errno(ENOENT), wlog)

FlushFile(op, wlog) == Outcome(op, NoError, wlog)

\* strings.Reader.ReadAt(b, off) on s: the bytes copied into b, n and the error.
ReadAt(s, b, off) ==
  IF off < 0 THEN [b |-> b, n |-> 0, err |-> errNegativeOffset]
  ELSE IF off >= Len(s) THEN [b |-> b, n |-> 0, err |-> EOF]
  ELSE LET n == Min(Len(b), Len(s) - off)
       IN [b |-> [i \in 1..Len(b) |-> IF i <= n THEN s[off + i] ELSE b[i]],
           n |-> n,
           err |-> IF n < Len(b) THEN EOF ELSE NoError]

ReadFile(op, wlog) ==
  IF Get(op, "Inode") # fileInode
    THEN Outcome(op, Errno(ENOENT), wlog)
    ELSE LET r == ReadAt(fileContents, Get(op, "Dst"), Get(op, "Offset"))
             done == Set(Set(op, "Dst", r.b), "BytesRead", r.n)
         IN Outcome(done, IF r.err = EOF THEN NoError ELSE r.err, wlog)

\* Every method testFS does not define: the embedded NotImplementedFileSystem's.
NotImplemented(op, wlog) == Outcome(op, Errno(ENOSYS), wlog)

\* The handshake is answered by the connection itself.
InitHandshake(op, wlog) == Outcome(op, NoError, wlog)

testFS(op, wlog) ==
  CASE op.type = "initOp" -> InitHandshake(op, wlog)
    [] op.type = "LookUpInodeOp" -> LookUpInode(op, wlog)
    [] op.type = "GetInodeAttributesOp" -> GetInodeAttributes(op, wlog)
    [] op.type = "OpenDirOp" -> OpenDir(op, wlog)
    [] op.type = "OpenFileOp" -> OpenFile(op, wlog)
    [] op.type = "FlushFileOp" -> FlushFile(op, wlog)
    [] op.type = "ReadFileOp" -> ReadFile(op, wlog)
    [] OTHER -> NotImplemented(op, wlog)

\* What a callback of another fuse.Server may complete with.
OtherErrors ==
  {NoError, Errno(ENOSYS), Wrap("lookup", Errno(ENOENT)), ErrorString("boom"),
   Wrap("outer", Wrap("inner", Errno(ENOSYS)))}

\* ---------------------------------------------------- formatWireLogEntry
\* The raw payload left out of the ignore set.
ignoredParamsNoData == {"OpContext", "Dst"}

\* Params that are ignored
ignoredParams == {"OpContext", "Dst", "Data"}

\* The name of the pointer type instead of the struct's: empty.
OperationNameOfPointer(op) == ""

\* t.Name()
OperationName(op) == op.type

\* The operands the wrong way round.
SinceSwapped(start, now) == start - now

\* time.Since(start) when the clock reads now
Since(start, now) == now - start

\* A type assertion on the error itself instead of errors.As: no unwrapping.
StatusOfNoUnwrap(opErr, status) ==
  IF opErr = NoError THEN 0
  ELSE IF Head(opErr).isErrno THEN Head(opErr).code
  ELSE status

\* An error without an errno reported as -1.
StatusOfUnknownMinusOne(opErr, status) ==
  IF opErr = NoError THEN 0
  ELSE IF ErrorsAs(opErr).ok THEN ErrorsAs(opErr).errno
  ELSE -1

\* Result of the operation: the Status the record gets, given the one it has.
StatusOf(opErr, status) ==
  IF opErr = NoError THEN 0
  ELSE IF ErrorsAs(opErr).ok THEN ErrorsAs(opErr).errno
  ELSE status

\* The context looked up but never stored.
ContextOfUnset(op, context) == context

\* Separate section for the operation context: the Context the record gets.
ContextOf(op, context) ==
  LET i == FieldIndex(op, "OpContext")
  IN IF i # 0 /\ op.fields[i].val.type = "OpContext"
       THEN Ptr(op.fields[i].val.v)
       ELSE context

\* Every pointer passed over, set or not.
SkipFieldAnyPointer(name, f) ==
  \/ Kind(f.type) = "Ptr"
  \/ Kind(f.type) = "Func"
  \/ name \in {"OpContext", "Dst", "Data"}

\* Functions not passed over.
SkipFieldKeepsFunc(name, f) ==
  \/ Kind(f.type) = "Ptr" /\ f.isNil
  \/ name \in {"OpContext", "Dst", "Data"}

\* The fields the copying loop passes over.
SkipField(name, f) ==
  \/ Kind(f.type) = "Ptr" /\ f.isNil
  \/ Kind(f.type) = "Func"
  \/ name \in ignoredParams

\* The loop over the fields, from field i on.
RECURSIVE CopyFields(_, _, _)
CopyFields(op, i, args) ==
  IF i > NumField(op) THEN args
  ELSE IF SkipField(op.fields[i].name, op.fields[i].val)
         THEN CopyFields(op, i + 1, args)
         ELSE CopyFields(op, i + 1, Put(args, op.fields[i].name, op.fields[i].val))

\* BytesRead taken from the size of the destination buffer.
AugmentRequestedSize(op, args) ==
  CASE op.type = "ReadFileOp" ->
         Put(args, "BytesRead", Val("int", LenOf(op.fields[FieldIndex(op, "Dst")].val)))
    [] op.type = "WriteFileOp" ->
         Put(args, "Size", Val("int", LenOf(op.fields[FieldIndex(op, "Data")].val)))
    [] OTHER -> args

\* The switch on the operation's type.
Augment(op, args) ==
  CASE op.type = "ReadFileOp" -> Put(args, "BytesRead", Val("int", Get(op, "BytesRead")))
    [] op.type = "WriteFileOp" ->
         Put(args, "Size", Val("int", LenOf(op.fields[FieldIndex(op, "Data")].val)))
    [] OTHER -> args

\* encoding/json: the JSON type a value is rendered as.
JSONType(val) ==
  IF val.isNil THEN "null"
  ELSE CASE Kind(val.type) = "Struct" -> "object"
         [] Kind(val.type) = "String" -> "string"
         [] Kind(val.type) = "Slice" -> "string"
         [] Kind(val.type) = "Bool" -> "bool"
         [] OTHER -> "number"
JSONMap(m) == [k \in DOMAIN m |-> [json |-> JSONType(m[k]), v |-> m[k].v]]
Unsupported(m) == \E k \in DOMAIN m : Kind(m[k].type) = "Func"

\* json.MarshalIndent(wlog, "", "  ") and the newline: the bytes, as the sequence
\* of units a decoder reads from them, and the error.
MarshalIndent(wlog) ==
  IF Unsupported(wlog.Args) \/ Unsupported(wlog.Extra)
    THEN [buf |-> <<>>, err |-> TRUE]
    ELSE [buf |-> <<[Operation |-> wlog.Operation, StartTime |-> wlog.StartTime,
                     Duration |-> wlog.Duration, Status |-> wlog.Status,
                     Context |-> wlog.Context, Args |-> JSONMap(wlog.Args),
                     Extra |-> JSONMap(wlog.Extra), newline |-> TRUE]>>,
          err |-> FALSE]

\* The record built afresh instead of finalised in place: Extra is lost.
formatWireLogEntryFresh(op, opErr, wlog, now) ==
  LET w == [NewWireLogRecord(wlog.StartTime) EXCEPT
                        !.Operation = OperationName(op),
                        !.Duration = Since(wlog.StartTime, now),
                        !.Status = StatusOf(opErr, wlog.Status),
                        !.Context = ContextOf(op, wlog.Context),
                        !.Args = Augment(op, CopyFields(op, 1, EmptyMap))]
      m == MarshalIndent(w)
  IN [wlog |-> w, buf |-> m.buf, err |-> m.err]

\* The record as the call leaves it, the bytes and the error it returns.
formatWireLogEntry(op, opErr, wlog, now) ==
  LET w == [wlog EXCEPT !.Operation = OperationName(op),
                        !.Duration = Since(wlog.StartTime, now),
                        !.Status = StatusOf(opErr, wlog.Status),
                        !.Context = ContextOf(op, wlog.Context),
                        !.Args = Augment(op, CopyFields(op, 1, EmptyMap))]
      m == MarshalIndent(w)
  IN [wlog |-> w, buf |-> m.buf, err |-> m.err]

\* ----------------------------------------------------------- connection
Init ==
  /\ server = "testFS"
  /\ ops = <<>>
  /\ stream = <<>>
  /\ clock = 0
  /\ completed = <<>>

\* A request is read: the handshake first, the others once it is answered.
Receive ==
  /\ Len(ops) < MaxOps
  /\ \E req \in Requests \cup {InitRequest} :
       /\ IF Len(ops) = 0 THEN req = InitRequest
                          ELSE req # InitRequest /\ ops[1].phase = "done"
       /\ ops' = Append(ops, [phase |-> "received",
                              op |-> NewOp(req, Len(ops) + 1),
                              err |-> NoError,
                              ferr |-> FALSE,
                              readAt |-> clock,
                              wlog |-> NewWireLogRecord(clock)])
  /\ UNCHANGED <<server, stream, clock, completed>>

\* What the callback of the mounted server may leave: testFS's outcome, or for
\* another server any completion error.
Outcomes(srv, op, wlog) ==
  IF srv = "testFS" \/ op.type = "initOp"
    THEN {testFS(op, wlog)}
    ELSE {Outcome(op, e, wlog) : e \in OtherErrors}

\* The callback of the mounted server runs.
Handle(id) ==
  /\ ops[id].phase = "received"
  /\ \E out \in Outcomes(server, ops[id].op, ops[id].wlog) :
       ops' = [ops EXCEPT ![id].phase = "handled", ![id].op = out.op,
                          ![id].err = out.err, ![id].wlog = out.wlog]
  /\ UNCHANGED <<server, stream, clock, completed>>

\* The reply is sent: the record is formatted and written to the wire logger.
Reply(id) ==
  /\ ops[id].phase = "handled"
  /\ LET r == formatWireLogEntry(ops[id].op, ops[id].err, ops[id].wlog, clock)
     IN /\ ops' = [ops EXCEPT ![id].phase = "done", ![id].wlog = r.wlog,
                              ![id].ferr = r.err]
        /\ stream' = IF r.err THEN stream ELSE stream \o r.buf
  /\ completed' = Append(completed, [id |-> id, at |-> clock])
  /\ UNCHANGED <<server, clock>>

Tick ==
  /\ clock < MaxClock
  /\ clock' = clock + 1
  /\ UNCHANGED <<server, ops, stream, completed>>

Next ==
  \/ Receive
  \/ \E id \in 1..Len(ops) : Handle(id)
  \/ \E id \in 1..Len(ops) : Reply(id)
  \/ Tick

Spec == Init /\ [][Next]_vars

\* formatWireLogEntry on its own: any one completed operation of either kind of
\* server, its record created at time 0, is formatted at some later reading.
InitFormat ==
  /\ server \in {"testFS", "other"}
  /\ \E req \in Requests \cup {InitRequest} :
       \E out \in Outcomes(server, NewOp(req, 1), NewWireLogRecord(0)) :
         ops = <<[phase |-> "handled", op |-> out.op, err |-> out.err,
                  ferr |-> FALSE, readAt |-> 0, wlog |-> out.wlog]>>
  /\ stream = <<>>
  /\ clock = 0
  /\ completed = <<>>

NextFormat ==
  \/ \E id \in 1..Len(ops) : Reply(id)
  \/ Tick

FormatSpec == InitFormat /\ [][NextFormat]_vars

\* ------------------------------------------------------------ properties
Ids == 1..Len(ops)
Done(id) == ops[id].phase = "done"
Rec(id) == ops[id].wlog
HasField(op, name) == name \in FieldNames(op)
FieldVal(op, name) == op.fields[FieldIndex(op, name)].val
\* The units of the stream that carry the request number id in their Context.
UnitsOf(id) ==
  {i \in 1..Len(stream) : stream[i].Context # Nil /\ stream[i].Context[1].FuseID = id}
\* The position of id's reply among the replies sent.
Pos(id) == CHOOSE i \in 1..Len(completed) : completed[i].id = id
\* The first errno of an error's chain is at position i.
FirstErrnoAt(err, i) ==
  /\ i \in 1..Len(err)
  /\ err[i].isErrno
  /\ \A j \in 1..(i - 1) : ~err[j].isErrno
NoErrno(err) == \A i \in 1..Len(err) : ~err[i].isErrno
\* The fields the generic pass is to log: set, data, not ignored.
Logged(op) ==
  {i \in 1..NumField(op) :
     /\ ~(op.fields[i].val.isNil /\ op.fields[i].val.type \in {"*uint64", "*os.FileMode"})
     /\ op.fields[i].val.type # "func()"
     /\ op.fields[i].name \notin {"OpContext", "Dst", "Data"}}
Augmented(op) == op.type \in {"ReadFileOp", "WriteFileOp"}

\* C1: the Status of a formatted record is 0 when the completion error is absent
\* and the code of the first errno of the error's chain when there is one; an
\* operation testFS does not implement (ReleaseFileHandleOp) is recorded with
\* Status ENOSYS and a Context.
C1_StatusIsErrno ==
  \A id \in Ids : Done(id) =>
    /\ ops[id].err = NoError => Rec(id).Status = 0
    /\ \A i \in 1..Len(ops[id].err) :
         FirstErrnoAt(ops[id].err, i) => Rec(id).Status = ops[id].err[i].code
    /\ (server = "testFS" /\ ops[id].op.type = "ReleaseFileHandleOp") =>
         /\ Rec(id).Status = ENOSYS
         /\ Rec(id).Context # Nil
         /\ Len(stream) = 1 /\ stream[1].Status = ENOSYS /\ stream[1].Context # Nil

C1_Witness ==
  \E id \in Ids :
    /\ Done(id)
    /\ server = "testFS"
    /\ ops[id].op.type = "ReleaseFileHandleOp"
    /\ Rec(id).Status = ENOSYS
    /\ Rec(id).Context # Nil

\* C2: a formatted record of an operation with an OpContext field has a Context,
\* which is that field's value and whose FuseID is positive; the record of the
\* handshake (initOp), which has no such field, has no Context.
C2_ContextPresence ==
  \A id \in Ids : Done(id) =>
    /\ HasField(ops[id].op, "OpContext") =>
         /\ Rec(id).Context = Ptr(FieldVal(ops[id].op, "OpContext").v)
         /\ Rec(id).Context[1].FuseID > 0
         /\ stream[Pos(id)].Context = Rec(id).Context
    /\ ops[id].op.type = "initOp" =>
         /\ Rec(id).Context = Nil
         /\ stream[Pos(id)].Context = Nil

C2_Witness ==
  /\ Len(ops) >= 2
  /\ Done(1) /\ ops[1].op.type = "initOp" /\ Rec(1).Context = Nil
  /\ Done(2) /\ Rec(2).Context # Nil /\ Rec(2).Context[1].FuseID > 0

\* C3: a ReadFileOp on the file at offset 0 with a buffer larger than the file
\* yields exactly one record, with Offset 0, Size > 0 and BytesRead the length of
\* the file, and without Dst.
BigRead(id) ==
  /\ ops[id].op.type = "ReadFileOp"
  /\ Get(ops[id].op, "Inode") = fileInode
  /\ Get(ops[id].op, "Offset") = 0
  /\ Get(ops[id].op, "Size") > Len(fileContents)

C3_ReadRecord ==
  \A id \in Ids : (Done(id) /\ BigRead(id)) =>
    /\ Cardinality(UnitsOf(id)) = 1
    /\ \A i \in UnitsOf(id) :
         /\ stream[i].Operation = "ReadFileOp"
         /\ stream[i].Args["Offset"].v = 0
         /\ stream[i].Args["Size"].v > 0
         /\ stream[i].Args["BytesRead"].v = Len(fileContents)
         /\ "Dst" \notin DOMAIN stream[i].Args
    /\ Rec(id).Args["BytesRead"].v = Len(fileContents)
    /\ "Dst" \notin DOMAIN Rec(id).Args

C3_Witness ==
  \E id \in Ids :
    /\ Done(id) /\ BigRead(id)
    /\ Get(ops[id].op, "Size") = MaxReadSize
    /\ Rec(id).Args["BytesRead"].v = 3
    /\ Cardinality(UnitsOf(id)) = 1

\* C4: the record of a WriteFileOp with a payload of length K, nil and empty
\* payloads included, has Args.Size = K and no Args.Data.
C4_WriteSize ==
  \A id \in Ids : (Done(id) /\ ops[id].op.type = "WriteFileOp") =>
    /\ "Size" \in DOMAIN Rec(id).Args
    /\ Rec(id).Args["Size"].v = LenOf(FieldVal(ops[id].op, "Data"))
    /\ "Data" \notin DOMAIN Rec(id).Args
    /\ Len(stream) = 1
    /\ stream[1].Args["Size"].v = LenOf(FieldVal(ops[id].op, "Data"))
    /\ "Data" \notin DOMAIN stream[1].Args

C4_Witness ==
  \E id \in Ids :
    /\ Done(id) /\ ops[id].op.type = "WriteFileOp"
    /\ LenOf(FieldVal(ops[id].op, "Data")) = MaxData
    /\ Rec(id).Args["Size"].v = MaxData

\* C5: for an operation type without augmentation whose pointer fields are all
\* set, every field outside the ignore set is in Args under its name with its value.
NoUnsetPointer(op) ==
  \A i \in 1..NumField(op) :
    ~(op.fields[i].val.isNil /\ op.fields[i].val.type \in {"*uint64", "*os.FileMode"})

C5_AllFieldsLogged ==
  \A id \in Ids : (Done(id) /\ ~Augmented(ops[id].op) /\ NoUnsetPointer(ops[id].op)) =>
    \A i \in 1..NumField(ops[id].op) :
      ops[id].op.fields[i].name \notin {"OpContext", "Dst", "Data"} =>
        /\ ops[id].op.fields[i].name \in DOMAIN Rec(id).Args
        /\ Rec(id).Args[ops[id].op.fields[i].name] = ops[id].op.fields[i].val
        /\ Len(stream) = 1
        /\ ops[id].op.fields[i].name \in DOMAIN stream[1].Args
        /\ stream[1].Args[ops[id].op.fields[i].name].v = ops[id].op.fields[i].val.v

C5_Witness ==
  \E id \in Ids :
    /\ Done(id)
    /\ ops[id].op.type = "SetInodeAttributesOp"
    /\ NoUnsetPointer(ops[id].op)
    /\ {"Inode", "Size", "Mode", "Attributes"} \subseteq DOMAIN Rec(id).Args

\* C6: every key of Args is the name of a field that is set, is not a function
\* and is not ignored, or is the key the operation's augmentation adds.
C6_ArgsKeysJustified ==
  \A id \in Ids : Done(id) =>
    \A k \in DOMAIN Rec(id).Args :
      \/ \E i \in Logged(ops[id].op) : ops[id].op.fields[i].name = k
      \/ ops[id].op.type = "ReadFileOp" /\ k = "BytesRead"
      \/ ops[id].op.type = "WriteFileOp" /\ k = "Size"

C6_Witness ==
  \E id \in Ids :
    /\ Done(id)
    /\ ops[id].op.type = "SetInodeAttributesOp"
    /\ FieldVal(ops[id].op, "Size").isNil
    /\ ~FieldVal(ops[id].op, "Mode").isNil
    /\ DOMAIN Rec(id).Args = {"Inode", "Mode", "Attributes"}

C8_ExtraUnchanged ==
  [][\A id \in Ids :
       (ops[id].phase = "handled" /\ ops'[id].phase = "done") =>
         /\ ops'[id].wlog.Extra = ops[id].wlog.Extra
         /\ ops'[id].wlog.StartTime = ops[id].wlog.StartTime
         /\ Len(stream') = Len(stream) + 1
         /\ DOMAIN stream'[Len(stream')].Extra = DOMAIN ops[id].wlog.Extra
         /\ \A k \in DOMAIN ops[id].wlog.Extra :
              stream'[Len(stream')].Extra[k].v = ops[id].wlog.Extra[k].v
         /\ stream'[Len(stream')].StartTime = ops[id].wlog.StartTime
         /\ ops[id].op.type # "LookUpInodeOp" => ops'[id].wlog.Extra = EmptyMap
         /\ ops[id].op.type = "LookUpInodeOp" =>
              /\ DOMAIN ops'[id].wlog.Extra = {"lookup"}
              /\ ops'[id].wlog.Extra["lookup"].v = <<121, 101, 115>>]_vars

C8_Witness ==
  \E i \in 1..Len(stream), j \in 1..Len(stream) :
    /\ stream[i].Operation = "LookUpInodeOp"
    /\ DOMAIN stream[i].Extra = {"lookup"}
    /\ stream[i].Extra["lookup"].v = <<121, 101, 115>>
    /\ stream[j].Operation = "GetInodeAttributesOp"
    /\ stream[j].Extra = EmptyMap

C10_UnknownErrorKeepsStatus ==
  \A id \in Ids : (Done(id) /\ ops[id].err # NoError /\ NoErrno(ops[id].err)) =>
    /\ ~ops[id].ferr
    /\ Len(stream) = 1
    /\ Rec(id).Status = 0
    /\ stream[1].Status = 0
    /\ Rec(id).Operation = ops[id].op.type
    /\ Rec(id).Context = IF HasField(ops[id].op, "OpContext")
                           THEN Ptr(FieldVal(ops[id].op, "OpContext").v)
                           ELSE Nil
    /\ DOMAIN Rec(id).Args =
         {ops[id].op.fields[i].name : i \in Logged(ops[id].op)}
         \cup (IF ops[id].op.type = "ReadFileOp" THEN {"BytesRead"} ELSE {})
         \cup (IF ops[id].op.type = "WriteFileOp" THEN {"Size"} ELSE {})
    /\ \A i \in Logged(ops[id].op) :
         Rec(id).Args[ops[id].op.fields[i].name] = ops[id].op.fields[i].val

C10_Witness ==
  \E id \in Ids :
    /\ Done(id)
    /\ server = "testFS"
    /\ ops[id].err = errNegativeOffset
    /\ Rec(id).Status = 0
    /\ Len(stream) = 1
    /\ stream[1].Operation = "ReadFileOp"

====
